---- MODULE Spec2Model ----
(***************************************************************************)
(* Identifier parsing of swc_ecma_parser (parser/ident.rs): parse_ident,   *)
(* parse_ident_ref, parse_label_ident, parse_ident_name,                   *)
(* parse_private_name, parse_maybe_private_name, parse_module_export_name. *)
(*                                                                         *)
(* A behaviour is one call on a parser whose Context, syntax mode and      *)
(* current token are drawn in Init.  The token buffer is lazy: bump()      *)
(* leaves `cur` empty and the lexer yields the following token only when   *)
(* the parser looks at it again (parse_private_name does, the other        *)
(* operations do not).  Spans are reduced to the one quantity the code     *)
(* computes with: the distance between a token and its predecessor.        *)
(***************************************************************************)
EXTENDS Naturals, Sequences, FiniteSets

\* Largest distance, in bytes, between '#' and the token that follows it.
MaxGap == 2

VARIABLES ctx, typescript, cur, consumed, errors, strict_errors, entry, call, result

vars == <<ctx, typescript, cur, consumed, errors, strict_errors, entry, call, result>>

(***************************************************************************)
(* Context flags read by this file.                                        *)
(***************************************************************************)
Context ==
  {"InGenerator", "InAsync", "Module", "InDeclare", "InStaticBlock",
   "InClassField", "InType"}

(***************************************************************************)
(* Tokens.  kind/v is the lexer's classification (Token::Word(Word::..),   *)
(* Token::Str, ...), text is the source text of the token.                 *)
(***************************************************************************)
Tok(kind, v, text) == [kind |-> kind, v |-> v, text |-> text]

IdentOther == {Tok("IdentOther", s, s) : s \in {"foo", "arguments"}}

IdentKnown ==
  {Tok("IdentKnown", "Enum", "enum"), Tok("IdentKnown", "Static", "static"),
   Tok("IdentKnown", "Implements", "implements"),
   Tok("IdentKnown", "Interface", "interface"),
   Tok("IdentKnown", "Package", "package"),
   Tok("IdentKnown", "Private", "private"),
   Tok("IdentKnown", "Protected", "protected"),
   Tok("IdentKnown", "Public", "public"), Tok("IdentKnown", "Async", "async")}

Keywords ==
  {Tok("Keyword", "Yield", "yield"), Tok("Keyword", "Await", "await"),
   Tok("Keyword", "Let", "let"), Tok("Keyword", "This", "this"),
   Tok("Keyword", "Default", "default")}

WordLits ==
  {Tok("Null", "Null", "null"), Tok("True", "True", "true"),
   Tok("False", "False", "false")}

Words == IdentOther \cup IdentKnown \cup Keywords \cup WordLits

NonWords ==
  {Tok("Str", "x", "\"x\""), Tok("Num", "1", "1"), Tok("Hash", "#", "#"),
   Tok("JSXName", "div", "div")}

Tokens == Words \cup NonWords

IsWord(t) == t.kind \in {"IdentOther", "IdentKnown", "Keyword", "Null", "True", "False"}

\* The buffer's `cur` after bump(), before the lexer is asked again.
NoToken == [tok |-> Tok("None", "", ""), gap |-> 0]

Lexed(t, g) == [tok |-> t, gap |-> g]

(***************************************************************************)
(* Conversions of a classified word to its Atom.                           *)
(***************************************************************************)
KnownIdentAtom(v) ==
  CASE v = "Enum" -> "enum"
    [] v = "Static" -> "static"
    [] v = "Implements" -> "implements"
    [] v = "Interface" -> "interface"
    [] v = "Package" -> "package"
    [] v = "Private" -> "private"
    [] v = "Protected" -> "protected"
    [] v = "Public" -> "public"
    [] v = "Async" -> "async"

KeywordAtom(v) ==
  CASE v = "Yield" -> "yield"
    [] v = "Await" -> "await"
    [] v = "Let" -> "let"
    [] v = "This" -> "this"
    [] v = "Default" -> "default"

IdentLikeAtom(w) ==
  IF w.kind = "IdentKnown" THEN KnownIdentAtom(w.v) ELSE w.v

WordAtom(w) ==
  CASE w.kind = "Keyword" -> KeywordAtom(w.v)
    [] w.kind = "Null" -> "null"
    [] w.kind = "True" -> "true"
    [] w.kind = "False" -> "false"
    [] OTHER -> IdentLikeAtom(w)

(***************************************************************************)
(* Results and diagnostics.  A PResult is kept as the pair of what it      *)
(* carries: Ok(v) carries one value and no error, Err(e) the reverse.      *)
(***************************************************************************)
Node(node, sym) == [node |-> node, sym |-> sym]

SyntaxError(kind, arg) == [kind |-> kind, arg |-> arg]

Ok(v) == [value |-> <<v>>, fatal |-> <<>>]

Err(e) == [value |-> <<>>, fatal |-> <<e>>]

IsOk(r) == r.fatal = <<>>

NoResult == [value |-> <<>>, fatal |-> <<>>]

Ret(p, r) == [p |-> p, res |-> r]

(***************************************************************************)
(* The parser, as the record the operations thread through.                *)
(***************************************************************************)
self ==
  [ctx |-> ctx, typescript |-> typescript, cur |-> cur, consumed |-> consumed,
   errors |-> errors, strict_errors |-> strict_errors]

bump(p) == [p EXCEPT !.cur = NoToken, !.consumed = @ + 1]

emit_err(p, e) == [p EXCEPT !.errors = Append(@, e)]

emit_strict_mode_err(p, e) == [p EXCEPT !.strict_errors = Append(@, e)]

(***************************************************************************)
(* parse_ident, first match on the word: the words restricted in strict    *)
(* mode.  `enum` is reported with emit_err, the others with                *)
(* emit_strict_mode_err.                                                   *)
(***************************************************************************)
StrictKnown ==
  {"Static", "Implements", "Interface", "Package", "Private", "Protected", "Public"}

\* Variant: `enum` reported like the other restricted words.
strict_mode_check_enum_deferred(p, w) ==
  CASE w.kind = "Keyword" /\ w.v \in {"Yield", "Let"} ->
         emit_strict_mode_err(p, SyntaxError("InvalidIdentInStrict", KeywordAtom(w.v)))
    [] w.kind = "IdentKnown" /\ w.v \in StrictKnown \cup {"Enum"} ->
         emit_strict_mode_err(p, SyntaxError("InvalidIdentInStrict", IdentLikeAtom(w)))
    [] OTHER -> p

strict_mode_check(p, w) ==
  CASE w.kind = "IdentKnown" /\ w.v = "Enum" ->
         emit_err(p, SyntaxError("InvalidIdentInStrict", IdentLikeAtom(w)))
    [] w.kind = "Keyword" /\ w.v \in {"Yield", "Let"} ->
         emit_strict_mode_err(p, SyntaxError("InvalidIdentInStrict", KeywordAtom(w.v)))
    [] w.kind = "IdentKnown" /\ w.v \in StrictKnown ->
         emit_strict_mode_err(p, SyntaxError("InvalidIdentInStrict", IdentLikeAtom(w)))
    [] OTHER -> p

(***************************************************************************)
(* parse_ident, second match on the word: reserved words.  The arms are    *)
(* tried in the order of the source.                                       *)
(***************************************************************************)
IsAwait(w) == w.kind = "Keyword" /\ w.v = "Await"

\* Variant: the three `await` arms taken in the opposite order.
reserved_word_check_await_reversed(p, w, incl_yield, incl_await) ==
  IF IsAwait(w) /\ ("Module" \in p.ctx \/ "InAsync" \in p.ctx)
  THEN Ret(p, Err(SyntaxError("InvalidIdentInAsync", "")))
  ELSE IF IsAwait(w) /\ "InStaticBlock" \in p.ctx
  THEN Ret(p, Err(SyntaxError("ExpectedIdent", "")))
  ELSE IF IsAwait(w) /\ "InDeclare" \in p.ctx THEN Ret(p, Ok("await"))
  ELSE IF w.kind = "Keyword" /\ w.v = "This" /\ p.typescript THEN Ret(p, Ok("this"))
  ELSE IF w.kind = "Keyword" /\ w.v = "Let" THEN Ret(p, Ok("let"))
  ELSE IF w.kind \in {"IdentOther", "IdentKnown"}
  THEN IF "InClassField" \in p.ctx /\ w.kind = "IdentOther" /\ w.v = "arguments"
       THEN Ret(emit_err(p, SyntaxError("ArgumentsInClassField", "")),
                Ok(IdentLikeAtom(w)))
       ELSE Ret(p, Ok(IdentLikeAtom(w)))
  ELSE IF w.kind = "Keyword" /\ w.v = "Yield" /\ incl_yield THEN Ret(p, Ok("yield"))
  ELSE IF IsAwait(w) /\ incl_await THEN Ret(p, Ok("await"))
  ELSE Ret(p, Err(SyntaxError("ExpectedIdent", "")))

\* Variant: `await` rejected only when Module and InAsync both hold.
reserved_word_check_module_and_async(p, w, incl_yield, incl_await) ==
  IF IsAwait(w) /\ "InDeclare" \in p.ctx THEN Ret(p, Ok("await"))
  ELSE IF IsAwait(w) /\ "InStaticBlock" \in p.ctx
  THEN Ret(p, Err(SyntaxError("ExpectedIdent", "")))
  ELSE IF IsAwait(w) /\ ("Module" \in p.ctx /\ "InAsync" \in p.ctx)
  THEN Ret(p, Err(SyntaxError("InvalidIdentInAsync", "")))
  ELSE IF w.kind = "Keyword" /\ w.v = "This" /\ p.typescript THEN Ret(p, Ok("this"))
  ELSE IF w.kind = "Keyword" /\ w.v = "Let" THEN Ret(p, Ok("let"))
  ELSE IF w.kind \in {"IdentOther", "IdentKnown"}
  THEN IF "InClassField" \in p.ctx /\ w.kind = "IdentOther" /\ w.v = "arguments"
       THEN Ret(emit_err(p, SyntaxError("ArgumentsInClassField", "")),
                Ok(IdentLikeAtom(w)))
       ELSE Ret(p, Ok(IdentLikeAtom(w)))
  ELSE IF w.kind = "Keyword" /\ w.v = "Yield" /\ incl_yield THEN Ret(p, Ok("yield"))
  ELSE IF IsAwait(w) /\ incl_await THEN Ret(p, Ok("await"))
  ELSE Ret(p, Err(SyntaxError("ExpectedIdent", "")))

\* Variant: incl_yield and incl_await exchanged.
reserved_word_check_flags_swapped(p, w, incl_yield, incl_await) ==
  IF IsAwait(w) /\ "InDeclare" \in p.ctx THEN Ret(p, Ok("await"))
  ELSE IF IsAwait(w) /\ "InStaticBlock" \in p.ctx
  THEN Ret(p, Err(SyntaxError("ExpectedIdent", "")))
  ELSE IF IsAwait(w) /\ ("Module" \in p.ctx \/ "InAsync" \in p.ctx)
  THEN Ret(p, Err(SyntaxError("InvalidIdentInAsync", "")))
  ELSE IF w.kind = "Keyword" /\ w.v = "This" /\ p.typescript THEN Ret(p, Ok("this"))
  ELSE IF w.kind = "Keyword" /\ w.v = "Let" THEN Ret(p, Ok("let"))
  ELSE IF w.kind \in {"IdentOther", "IdentKnown"}
  THEN IF "InClassField" \in p.ctx /\ w.kind = "IdentOther" /\ w.v = "arguments"
       THEN Ret(emit_err(p, SyntaxError("ArgumentsInClassField", "")),
                Ok(IdentLikeAtom(w)))
       ELSE Ret(p, Ok(IdentLikeAtom(w)))
  ELSE IF w.kind = "Keyword" /\ w.v = "Yield" /\ incl_await THEN Ret(p, Ok("yield"))
  ELSE IF IsAwait(w) /\ incl_yield THEN Ret(p, Ok("await"))
  ELSE Ret(p, Err(SyntaxError("ExpectedIdent", "")))

\* Variant: `arguments` reported without testing InClassField.
reserved_word_check_arguments_anywhere(p, w, incl_yield, incl_await) ==
  IF IsAwait(w) /\ "InDeclare" \in p.ctx THEN Ret(p, Ok("await"))
  ELSE IF IsAwait(w) /\ "InStaticBlock" \in p.ctx
  THEN Ret(p, Err(SyntaxError("ExpectedIdent", "")))
  ELSE IF IsAwait(w) /\ ("Module" \in p.ctx \/ "InAsync" \in p.ctx)
  THEN Ret(p, Err(SyntaxError("InvalidIdentInAsync", "")))
  ELSE IF w.kind = "Keyword" /\ w.v = "This" /\ p.typescript THEN Ret(p, Ok("this"))
  ELSE IF w.kind = "Keyword" /\ w.v = "Let" THEN Ret(p, Ok("let"))
  ELSE IF w.kind \in {"IdentOther", "IdentKnown"}
  THEN IF w.kind = "IdentOther" /\ w.v = "arguments"
       THEN Ret(emit_err(p, SyntaxError("ArgumentsInClassField", "")),
                Ok(IdentLikeAtom(w)))
       ELSE Ret(p, Ok(IdentLikeAtom(w)))
  ELSE IF w.kind = "Keyword" /\ w.v = "Yield" /\ incl_yield THEN Ret(p, Ok("yield"))
  ELSE IF IsAwait(w) /\ incl_await THEN Ret(p, Ok("await"))
  ELSE Ret(p, Err(SyntaxError("ExpectedIdent", "")))

\* Variant: `arguments` in a class field raised as a fatal error beside the name.
reserved_word_check_arguments_fatal(p, w, incl_yield, incl_await) ==
  IF IsAwait(w) /\ "InDeclare" \in p.ctx THEN Ret(p, Ok("await"))
  ELSE IF IsAwait(w) /\ "InStaticBlock" \in p.ctx
  THEN Ret(p, Err(SyntaxError("ExpectedIdent", "")))
  ELSE IF IsAwait(w) /\ ("Module" \in p.ctx \/ "InAsync" \in p.ctx)
  THEN Ret(p, Err(SyntaxError("InvalidIdentInAsync", "")))
  ELSE IF w.kind = "Keyword" /\ w.v = "This" /\ p.typescript THEN Ret(p, Ok("this"))
  ELSE IF w.kind = "Keyword" /\ w.v = "Let" THEN Ret(p, Ok("let"))
  ELSE IF w.kind \in {"IdentOther", "IdentKnown"}
  THEN IF "InClassField" \in p.ctx /\ w.kind = "IdentOther" /\ w.v = "arguments"
       THEN Ret(p, [value |-> <<IdentLikeAtom(w)>>,
                    fatal |-> <<SyntaxError("ArgumentsInClassField", "")>>])
       ELSE Ret(p, Ok(IdentLikeAtom(w)))
  ELSE IF w.kind = "Keyword" /\ w.v = "Yield" /\ incl_yield THEN Ret(p, Ok("yield"))
  ELSE IF IsAwait(w) /\ incl_await THEN Ret(p, Ok("await"))
  ELSE Ret(p, Err(SyntaxError("ExpectedIdent", "")))

reserved_word_check(p, w, incl_yield, incl_await) ==
  IF IsAwait(w) /\ "InDeclare" \in p.ctx THEN Ret(p, Ok("await"))
  ELSE IF IsAwait(w) /\ "InStaticBlock" \in p.ctx
  THEN Ret(p, Err(SyntaxError("ExpectedIdent", "")))
  ELSE IF IsAwait(w) /\ ("Module" \in p.ctx \/ "InAsync" \in p.ctx)
  THEN Ret(p, Err(SyntaxError("InvalidIdentInAsync", "")))
  ELSE IF w.kind = "Keyword" /\ w.v = "This" /\ p.typescript THEN Ret(p, Ok("this"))
  ELSE IF w.kind = "Keyword" /\ w.v = "Let" THEN Ret(p, Ok("let"))
  ELSE IF w.kind \in {"IdentOther", "IdentKnown"}
  THEN IF "InClassField" \in p.ctx /\ w.kind = "IdentOther" /\ w.v = "arguments"
       THEN Ret(emit_err(p, SyntaxError("ArgumentsInClassField", "")),
                Ok(IdentLikeAtom(w)))
       ELSE Ret(p, Ok(IdentLikeAtom(w)))
  ELSE IF w.kind = "Keyword" /\ w.v = "Yield" /\ incl_yield THEN Ret(p, Ok("yield"))
  ELSE IF IsAwait(w) /\ incl_await THEN Ret(p, Ok("await"))
  ELSE Ret(p, Err(SyntaxError("ExpectedIdent", "")))

IdentOf(r) ==
  IF IsOk(r.res) THEN Ret(r.p, Ok(Node("Ident", r.res.value[1]))) ELSE r

parse_ident(p, incl_yield, incl_await) ==
  IF IsWord(p.cur.tok)
  THEN LET w == p.cur.tok
       IN IdentOf(reserved_word_check(strict_mode_check(bump(p), w), w,
                                      incl_yield, incl_await))
  ELSE Ret(p, Err(SyntaxError("ExpectedIdent", "")))

\* Variant: the flags passed without negation.
parse_ident_ref_not_negated(p) ==
  parse_ident(p, "InGenerator" \in p.ctx, "InAsync" \in p.ctx)

parse_ident_ref(p) ==
  parse_ident(p, ~("InGenerator" \in p.ctx), ~("InAsync" \in p.ctx))

parse_label_ident(p) ==
  parse_ident(p, ~("InGenerator" \in p.ctx), ~("InAsync" \in p.ctx))

(***************************************************************************)
(* parse_ident_name: any word, and a JSX name in a type position.          *)
(***************************************************************************)
parse_ident_name(p) ==
  LET in_type == "InType" \in p.ctx
      t == p.cur.tok
  IN CASE IsWord(t) -> Ret(bump(p), Ok(Node("IdentName", WordAtom(t))))
       [] t.kind = "JSXName" /\ in_type -> Ret(bump(p), Ok(Node("IdentName", t.v)))
       [] OTHER -> Ret(p, Err(SyntaxError("ExpectedIdent", "")))

(***************************************************************************)
(* parse_private_name.  nxt is the token the lexer yields after '#',       *)
(* with its distance from the end of '#'.                                  *)
(***************************************************************************)
\* Variant: the name read as an identifier reference.
parse_private_name_as_ref(p, nxt) ==
  LET p1 == [bump(p) EXCEPT !.cur = nxt]
  IN IF p1.cur.gap # 0
     THEN Ret(p1, Err(SyntaxError("SpaceBetweenHashAndIdent", "")))
     ELSE LET id == parse_ident_ref(p1)
          IN IF IsOk(id.res)
             THEN Ret(id.p, Ok(Node("PrivateName", id.res.value[1].sym)))
             ELSE id

parse_private_name(p, nxt) ==
  LET p1 == [bump(p) EXCEPT !.cur = nxt]
  IN IF p1.cur.gap # 0
     THEN Ret(p1, Err(SyntaxError("SpaceBetweenHashAndIdent", "")))
     ELSE LET id == parse_ident_name(p1)
          IN IF IsOk(id.res)
             THEN Ret(id.p, Ok(Node("PrivateName", id.res.value[1].sym)))
             ELSE id

Wrap(r, variant) ==
  IF IsOk(r.res)
  THEN Ret(r.p, Ok(Node(variant, r.res.value[1].sym)))
  ELSE r

parse_maybe_private_name(p, nxt) ==
  LET is_private == p.cur.tok.kind = "Hash"
  IN IF is_private
     THEN Wrap(parse_private_name(p, nxt), "Either::Left")
     ELSE Wrap(parse_ident_name(p), "Either::Right")

(***************************************************************************)
(* parse_module_export_name.  parse_lit consumes the string literal.       *)
(***************************************************************************)
parse_lit(p) == Ret(bump(p), Ok(Node("Lit::Str", p.cur.tok.v)))

\* Variant: a word taken through the reserved-word checks.
parse_module_export_name_as_ref(p) ==
  CASE p.cur.tok.kind = "Str" -> Wrap(parse_lit(p), "ModuleExportName::Str")
    [] IsWord(p.cur.tok) -> Wrap(parse_ident_ref(p), "ModuleExportName::Ident")
    [] OTHER -> Ret(p, Err(SyntaxError("Unexpected", "identifier or string")))

parse_module_export_name(p) ==
  CASE p.cur.tok.kind = "Str" -> Wrap(parse_lit(p), "ModuleExportName::Str")
    [] IsWord(p.cur.tok) -> Wrap(parse_ident_name(p), "ModuleExportName::Ident")
    [] OTHER -> Ret(p, Err(SyntaxError("Unexpected", "identifier or string")))

(***************************************************************************)
(* The state machine: one call on a freshly positioned parser.             *)
(***************************************************************************)
Ready == call.op = "none"

\* What was called: the operation, its arguments, and the token the lexer
\* yielded during the call (NoToken when it was not asked).
Call(op, incl_yield, incl_await, nxt) ==
  [op |-> op, incl_yield |-> incl_yield, incl_await |-> incl_await, nxt |-> nxt]

Init ==
  /\ ctx \in SUBSET Context
  /\ typescript \in BOOLEAN
  /\ cur \in {Lexed(t, 0) : t \in Tokens}
  /\ consumed = 0
  /\ errors = <<>>
  /\ strict_errors = <<>>
  /\ entry = cur
  /\ call = Call("none", FALSE, FALSE, NoToken)
  /\ result = NoResult

Return(r, c) ==
  /\ cur' = r.p.cur
  /\ consumed' = r.p.consumed
  /\ errors' = r.p.errors
  /\ strict_errors' = r.p.strict_errors
  /\ result' = r.res
  /\ call' = c
  /\ UNCHANGED <<ctx, typescript, entry>>

ParseIdent ==
  /\ Ready
  /\ \E incl_yield \in BOOLEAN, incl_await \in BOOLEAN :
       Return(parse_ident(self, incl_yield, incl_await),
              Call("parse_ident", incl_yield, incl_await, NoToken))

ParseIdentRef ==
  /\ Ready
  /\ Return(parse_ident_ref(self),
            Call("parse_ident_ref", ~("InGenerator" \in ctx), ~("InAsync" \in ctx), NoToken))

ParseLabelIdent ==
  /\ Ready
  /\ Return(parse_label_ident(self),
            Call("parse_label_ident", ~("InGenerator" \in ctx), ~("InAsync" \in ctx), NoToken))

ParseIdentName ==
  /\ Ready
  /\ Return(parse_ident_name(self), Call("parse_ident_name", FALSE, FALSE, NoToken))

NextTokens == {Lexed(t, g) : t \in Tokens, g \in 0..MaxGap}

\* assert_and_bump!(self, '#'): the caller guarantees the current token.
ParsePrivateName ==
  /\ Ready
  /\ cur.tok.kind = "Hash"
  /\ \E nxt \in NextTokens :
       Return(parse_private_name(self, nxt),
              Call("parse_private_name", FALSE, FALSE, nxt))

ParseMaybePrivateName ==
  /\ Ready
  /\ \E nxt \in IF cur.tok.kind = "Hash" THEN NextTokens ELSE {NoToken} :
       Return(parse_maybe_private_name(self, nxt),
              Call("parse_maybe_private_name", FALSE, FALSE, nxt))

ParseModuleExportName ==
  /\ Ready
  /\ Return(parse_module_export_name(self),
            Call("parse_module_export_name", FALSE, FALSE, NoToken))

Next ==
  \/ ParseIdent
  \/ ParseIdentRef
  \/ ParseLabelIdent
  \/ ParseIdentName
  \/ ParsePrivateName
  \/ ParseMaybePrivateName
  \/ ParseModuleExportName

Spec == Init /\ [][Next]_vars

(***************************************************************************)
(* Properties.                                                             *)
(***************************************************************************)
Called(op) == call.op = op

Has(flag) == flag \in ctx

Fatal(kind, arg) == result = Err(SyntaxError(kind, arg))

Resolved(node, sym) == result = Ok(Node(node, sym))

NoDiagnostics == errors = <<>> /\ strict_errors = <<>>

\* The parser as it was when the call was made.
AtEntry ==
  [ctx |-> ctx, typescript |-> typescript, cur |-> entry, consumed |-> 0,
   errors |-> <<>>, strict_errors |-> <<>>]

Outcomes(r) == Len(r.value) + Len(r.fatal)

StrictNine ==
  {"static", "implements", "interface", "package", "private", "protected",
   "public", "let", "yield"}

ResolvedWord(texts) ==
  /\ Called("parse_ident")
  /\ IsWord(entry.tok)
  /\ entry.tok.text \in texts
  /\ IsOk(result)

DeferredOnly(text) ==
  /\ strict_errors = <<SyntaxError("InvalidIdentInStrict", text)>>
  /\ errors = <<>>

\* C2 as claimed: each of the ten words, enum included, when resolved by
\* parse_ident, leaves exactly one InvalidIdentInStrict diagnostic carrying
\* its own text in the strict-mode channel and none in the unconditional one.
C2_AllTenDeferred ==
  ResolvedWord(StrictNine \cup {"enum"}) => DeferredOnly(entry.tok.text)

\* C2 as amended: the nine words static, implements, interface, package,
\* private, protected, public, let and yield leave exactly one deferred
\* InvalidIdentInStrict diagnostic carrying their own text; enum leaves
\* exactly one InvalidIdentInStrict diagnostic carrying "enum" in the
\* unconditional channel and nothing in the strict-mode channel.
C2_NineDeferredEnumUnconditional ==
  /\ ResolvedWord(StrictNine) => DeferredOnly(entry.tok.text)
  /\ ResolvedWord({"enum"}) =>
       /\ errors = <<SyntaxError("InvalidIdentInStrict", entry.tok.text)>>
       /\ strict_errors = <<>>

\* C2 witness: enum resolved, with its diagnostic in the unconditional channel.
C2_Witness ==
  /\ ResolvedWord({"enum"})
  /\ Resolved("Ident", "enum")
  /\ Len(errors) = 1
  /\ strict_errors = <<>>

AwaitCall == Called("parse_ident") /\ IsAwait(entry.tok)

\* C3 as claimed: await with InStaticBlock is fatal "expected identifier"
\* whatever allow_await and the other flags are.
C3_StaticBlockAlwaysFatal ==
  (AwaitCall /\ Has("InStaticBlock")) => Fatal("ExpectedIdent", "")

\* C3 as amended: await with InStaticBlock set and InDeclare clear is fatal
\* "expected identifier" whatever allow_await and the other flags are.
C3_StaticBlockFatalUnlessDeclare ==
  (AwaitCall /\ Has("InStaticBlock") /\ ~Has("InDeclare")) =>
    Fatal("ExpectedIdent", "")

\* C3 witness: await in a static block of a module, allow_await true.
C3_Witness ==
  /\ AwaitCall
  /\ Has("InStaticBlock")
  /\ Has("Module")
  /\ ~Has("InDeclare")
  /\ call.incl_await
  /\ Fatal("ExpectedIdent", "")

\* C4: await with InDeclare resolves to "await", with no fatal diagnostic,
\* whatever Module, InAsync and allow_await are.
C4_DeclareAcceptsAwait ==
  (AwaitCall /\ Has("InDeclare")) => Resolved("Ident", "await")

\* C4 witness: Context{InDeclare, Module} + await, allow_await false.
C4_Witness ==
  /\ AwaitCall
  /\ Has("InDeclare")
  /\ Has("Module")
  /\ ~call.incl_await
  /\ Resolved("Ident", "await")

\* C5: await with InDeclare and InStaticBlock clear and Module or InAsync set
\* is fatal "invalid ident in async context" and returns no name, for both
\* values of allow_await.
C5_ModuleOrAsyncRejectsAwait ==
  (/\ AwaitCall
   /\ ~Has("InDeclare")
   /\ ~Has("InStaticBlock")
   /\ (Has("Module") \/ Has("InAsync"))) =>
    (Fatal("InvalidIdentInAsync", "") /\ result.value = <<>>)

\* C5 witness: await in an async function of a script, allow_await true.
C5_Witness ==
  /\ AwaitCall
  /\ Has("InAsync")
  /\ ~Has("Module")
  /\ call.incl_await
  /\ Fatal("InvalidIdentInAsync", "")

NoAwaitRule ==
  /\ ~Has("InDeclare")
  /\ ~Has("InStaticBlock")
  /\ ~Has("Module")
  /\ ~Has("InAsync")

\* C6: yield resolves to "yield" iff allow_yield; await, where no rule on
\* InDeclare, InStaticBlock, Module or InAsync applies, resolves to "await"
\* iff allow_await; with the flag false the call is fatal "expected
\* identifier".
C6_FlagsDecideYieldAwait ==
  /\ (Called("parse_ident") /\ entry.tok = Tok("Keyword", "Yield", "yield")) =>
       IF call.incl_yield THEN Resolved("Ident", "yield")
       ELSE Fatal("ExpectedIdent", "")
  /\ (AwaitCall /\ NoAwaitRule) =>
       IF call.incl_await THEN Resolved("Ident", "await")
       ELSE Fatal("ExpectedIdent", "")

\* C6 witness: yield accepted with allow_yield true and allow_await false.
C6_Witness ==
  /\ Called("parse_ident")
  /\ entry.tok.text = "yield"
  /\ call.incl_yield
  /\ ~call.incl_await
  /\ Resolved("Ident", "yield")

ArgumentsCall ==
  Called("parse_ident") /\ entry.tok = Tok("IdentOther", "arguments", "arguments")

\* C7: arguments resolves to "arguments"; with InClassField it adds exactly
\* one ArgumentsInClassField diagnostic to the sink, without InClassField it
\* adds no diagnostic at all.
C7_ArgumentsInClassField ==
  ArgumentsCall =>
    /\ Resolved("Ident", "arguments")
    /\ strict_errors = <<>>
    /\ errors = IF Has("InClassField")
                THEN <<SyntaxError("ArgumentsInClassField", "")>>
                ELSE <<>>

\* C7 witness: arguments resolved in a class field, one diagnostic recorded.
C7_Witness ==
  /\ ArgumentsCall
  /\ Has("InClassField")
  /\ Resolved("Ident", "arguments")
  /\ Len(errors) = 1

\* C8: parse_private_name on '#': with a gap before the next token it is
\* fatal SpaceBetweenHashAndIdent, only '#' is consumed and the next token
\* stays current; with no gap and a word next, it returns a PrivateName with
\* the word's text, both tokens consumed, and no diagnostic in the sink.
C8_PrivateName ==
  Called("parse_private_name") =>
    /\ call.nxt.gap # 0 =>
         /\ Fatal("SpaceBetweenHashAndIdent", "")
         /\ consumed = 1
         /\ cur = call.nxt
    /\ (call.nxt.gap = 0 /\ IsWord(call.nxt.tok)) =>
         /\ Resolved("PrivateName", call.nxt.tok.text)
         /\ consumed = 2
         /\ NoDiagnostics

\* C8 witness: #yield inside a generator.
C8_Witness ==
  /\ Called("parse_private_name")
  /\ call.nxt = Lexed(Tok("Keyword", "Yield", "yield"), 0)
  /\ Has("InGenerator")
  /\ Resolved("PrivateName", "yield")

\* C9: parse_module_export_name: a string literal gives the string variant
\* holding the literal; any word gives the identifier variant holding the
\* word's text and no diagnostic; any other token is fatal "expected
\* identifier or string" and is not consumed.
C9_ModuleExportName ==
  Called("parse_module_export_name") =>
    IF entry.tok.kind = "Str"
    THEN Resolved("ModuleExportName::Str", entry.tok.v) /\ consumed = 1
    ELSE IF IsWord(entry.tok)
    THEN /\ Resolved("ModuleExportName::Ident", entry.tok.text)
         /\ consumed = 1
         /\ NoDiagnostics
    ELSE /\ Fatal("Unexpected", "identifier or string")
         /\ consumed = 0
         /\ cur = entry

\* C9 witness: the keyword default as an export name.
C9_Witness ==
  /\ Called("parse_module_export_name")
  /\ entry.tok.text = "default"
  /\ Resolved("ModuleExportName::Ident", "default")

\* C10: parse_ident_ref and parse_label_ident leave the parser, the sink and
\* the result exactly as parse_ident(not InGenerator, not InAsync) does from
\* the same state; so yield is accepted through them iff InGenerator is
\* clear, and is fatal "expected identifier" otherwise.
C10_RefAndLabelSpecialise ==
  (Called("parse_ident_ref") \/ Called("parse_label_ident")) =>
    /\ Ret(self, result) = parse_ident(AtEntry, ~Has("InGenerator"), ~Has("InAsync"))
    /\ entry.tok.text = "yield" =>
         IF Has("InGenerator") THEN Fatal("ExpectedIdent", "")
         ELSE Resolved("Ident", "yield")

\* C10 witness: yield rejected by parse_ident_ref inside a generator.
C10_Witness ==
  /\ Called("parse_ident_ref")
  /\ entry.tok.text = "yield"
  /\ Has("InGenerator")
  /\ Fatal("ExpectedIdent", "")

====
